---- MODULE Spec2Model ----
(***************************************************************************)
(* Model of pruneExport.py: the tag-driven pruning pipeline of a workspace *)
(* export.  The destination tree persists across invocations of            *)
(* prune_all_resources, so that the skip / overwrite logic of every stage  *)
(* can be observed over several runs; the source tree changes only when    *)
(* the export is taken again after a run that raised.                      *)
(*                                                                         *)
(* Conventions                                                             *)
(*  - a Python str is a sequence of one-character strings, so that         *)
(*    str.split, str.replace and the `in` substring test are computed;     *)
(*  - a JSON object is a TLA+ record; an absent key is an absent field     *)
(*    (a JSON null / pandas NaN cell is the same thing: absent);           *)
(*  - a line-delimited log file is [exists, rows]; a DataFrame is          *)
(*    [cols, rows], cols being the union of the keys of the rows, so an    *)
(*    attribute access df.col raises exactly when col \notin cols;         *)
(*  - an uncaught Python exception ends prune_all_resources: every stage   *)
(*    operator returns [raised, dst, ...] with dst the destination as it   *)
(*    was when the exception left the function.                            *)
(***************************************************************************)
EXTENDS Integers, Sequences, FiniteSets, TLC

\* ------------------------------------------------------------------ strings

\* str.split(sep) for a one-character sep: always at least one piece.
RECURSIVE SplitFrom(_, _, _, _)
SplitFrom(s, sep, i, cur) ==
    IF i > Len(s) THEN <<cur>>
    ELSE IF s[i] = sep THEN <<cur>> \o SplitFrom(s, sep, i + 1, <<>>)
    ELSE SplitFrom(s, sep, i + 1, Append(cur, s[i]))

Split(s, sep) == SplitFrom(s, sep, 1, <<>>)

\* sep.join(parts)
RECURSIVE Join(_, _)
Join(parts, sep) ==
    IF Len(parts) = 0 THEN <<>>
    ELSE IF Len(parts) = 1 THEN parts[1]
    ELSE parts[1] \o <<sep>> \o Join(Tail(parts), sep)

\* s.replace(a, b) for one-character a and b
Replace(s, a, b) == [i \in 1..Len(s) |-> IF s[i] = a THEN b ELSE s[i]]

\* Python's `sub in s` on strings
IsSubstring(sub, s) ==
    \E i \in 0..(Len(s) - Len(sub)) : SubSeq(s, i + 1, i + Len(sub)) = sub

Digit(d) == <<"0", "1", "2", "3", "4", "5", "6", "7", "8", "9">>[d + 1]

\* str(n) for a non-negative int
RECURSIVE Str(_)
Str(n) == IF n < 10 THEN <<Digit(n)>> ELSE Str(n \div 10) \o <<Digit(n % 10)>>

Range(f) == {f[i] : i \in DOMAIN f}

\* rows of a sequence that satisfy a boolean mask, in order (df[mask])
RECURSIVE SelectIdx(_, _, _)
SelectIdx(rows, keep, i) ==
    IF i > Len(rows) THEN <<>>
    ELSE (IF i \in keep THEN <<rows[i]>> ELSE <<>>) \o SelectIdx(rows, keep, i + 1)

\* ------------------------------------------------------------------ pandas

NoFile == [exists |-> FALSE, rows |-> <<>>]
File(rows) == [exists |-> TRUE, rows |-> rows]

\* pd.read_json(path, lines=True) of an existing file
ReadJson(file) ==
    [cols |-> UNION {DOMAIN file.rows[i] : i \in DOMAIN file.rows},
     rows |-> file.rows]

\* df[mask]: the columns stay, the rows are those of the mask
Filter(df, keep) == [cols |-> df.cols, rows |-> SelectIdx(df.rows, keep, 1)]

\* pd.concat([a, b])
Concat(a, b) == [cols |-> a.cols \cup b.cols, rows |-> a.rows \o b.rows]

\* write_multiline_df(df, file): one line per row
write_multiline_df(df) == File(df.rows)

\* series.apply(pd.Series): the frame of the dict-valued column `col`; a row
\* without the column contributes no keys of its own
SubCols(rows, col) ==
    UNION {DOMAIN rows[i][col] : i \in {j \in DOMAIN rows : col \in DOMAIN rows[j]}}

\* series.str.split("/").str[k] (k counted from 0): "nan" row when too short
SegAt(s, k) == LET p == Split(s, "/") IN IF Len(p) > k THEN <<p[k + 1]>> ELSE <<>>

\* number of columns of series.str.split("/", expand=True)
ExpandWidth(rows, col) ==
    IF Len(rows) = 0 THEN 0
    ELSE LET W == {Len(Split(rows[i][col], "/")) : i \in DOMAIN rows}
         IN CHOOSE w \in W : \A v \in W : v <= w

\* series.str.split("/").str[:-1].str.join("/")
ParentPath(s) == LET p == Split(s, "/") IN Join(SubSeq(p, 1, Len(p) - 1), "/")

\* ------------------------------------------------------------------ inputs

\* requested tags (argparse --tags); the code only iterates the list and tests
\* membership, so the list is modelled as the set of its values
TeamA  == <<"t", "e", "a", "m", "_", "a">>
TeamB  == <<"t", "e", "a", "m", "_", "b">>
TeamAB == <<"t", "e", "a", "m", "_", "a", "_", "b">>
Bare   == <<"a">>

TagSets == {{TeamA}, {TeamB}, {TeamA, TeamB}, {TeamAB}, {Bare}}

W_Users == <<"U", "s", "e", "r", "s">>
W_teams == <<"t", "e", "a", "m", "s">>
U1 == <<"u", "1">>
U2 == <<"u", "2">>
U3 == <<"u", "3">>
C1id == <<"c", "1">>
C2id == <<"c", "2">>
C3id == <<"c", "3">>
C4id == <<"c", "4">>

\* "/a/b/c" from <<a, b, c>>
Path(segs) == Join(<<<<>>>> \o segs, "/")

\* clusters.log records: tagged team_a, tagged team_b, custom_tags without
\* z_team, no custom_tags at all
ClusterA     == [cluster_id |-> C1id, custom_tags |-> [z_team |-> TeamA]]
ClusterB     == [cluster_id |-> C2id, custom_tags |-> [z_team |-> TeamB]]
ClusterNoTeam == [cluster_id |-> C3id, custom_tags |-> [env |-> <<"p">>]]
ClusterNoTags == [cluster_id |-> C4id]
ClusterRecords == {ClusterA, ClusterB, ClusterNoTeam, ClusterNoTags}

AclCluster(id) == [object_id |-> Path(<<<<"c", "l", "u", "s", "t", "e", "r", "s">>, id>>)]
AclJob(n)      == [object_id |-> Path(<<<<"j", "o", "b", "s">>, Str(n)>>)]
AclDir(n)      == [object_id |-> Path(<<<<"d", "i", "r", "e", "c", "t", "o", "r", "i", "e", "s">>, Str(n)>>)]
AclNotebook(n) == [object_id |-> Path(<<<<"n", "o", "t", "e", "b", "o", "o", "k", "s">>, Str(n)>>)]

\* jobs.log records
JobExisting == [job_id |-> 1, settings |-> [existing_cluster_id |-> C1id]]
JobNewA     == [job_id |-> 2, settings |-> [new_cluster |-> [custom_tags |-> [z_team |-> TeamA]]]]
JobBoth     == [job_id |-> 3, settings |-> [existing_cluster_id |-> C1id,
                                            new_cluster |-> [custom_tags |-> [z_team |-> TeamA]]]]
JobNewPlain == [job_id |-> 4, settings |-> [new_cluster |-> [num_workers |-> 1]]]
JobNeither  == [job_id |-> 5, settings |-> [name |-> <<"n">>]]
JobOnB      == [job_id |-> 6, settings |-> [existing_cluster_id |-> C2id]]
JobNewNoTeam == [job_id |-> 7, settings |-> [new_cluster |-> [custom_tags |-> [env |-> <<"p">>]]]]

\* ------------------------------------------------------------------ stages

\* mutant of Skips: the existence test is dropped, every stage rewrites its output
Skips_NeverSkips(file, overwrite) == FALSE

\* `os.path.isfile(dst) and not overwrite` (isdir for groups): the stage leaves an
\* existing destination alone
Skips(file, overwrite) == file.exists /\ ~overwrite

\* mutant of ClusterMatches: any record that carries a z_team passes
ClusterMatches_AnyTeam(row, tags) ==
    /\ "custom_tags" \in DOMAIN row
    /\ "z_team" \in DOMAIN row.custom_tags

\* line 129: custom_tags.apply(pd.Series).z_team.isin(tags) for one row
ClusterMatches(row, tags) ==
    /\ "custom_tags" \in DOMAIN row
    /\ "z_team" \in DOMAIN row.custom_tags
    /\ row.custom_tags.z_team \in tags

\* an ACL row is kept when the third piece of its object_id is one of ids
AclKept(acls, ids) ==
    Filter(acls, {i \in DOMAIN acls.rows :
                    LET seg == SegAt(acls.rows[i].object_id, 2)
                    IN seg # <<>> /\ seg[1] \in Range(ids)})

\* prune_clusters: returns the list of kept cluster ids; wrote tells whether
\* line 130 wrote the destination clusters.log
prune_clusters(tags, src, dst, overwrite) ==
    IF ~src.clusters.exists
    THEN [raised |-> FALSE, dst |-> dst, ret |-> <<>>, branch |-> "missing",
          wrote |-> FALSE]
    ELSE
    LET skip  == Skips(dst.clusters, overwrite)
        srcdf == ReadJson(src.clusters)
    IN
    IF ~skip /\ (\/ "custom_tags" \notin srcdf.cols
                 \/ "z_team" \notin SubCols(srcdf.rows, "custom_tags"))
    THEN [raised |-> TRUE, dst |-> dst, ret |-> <<>>, branch |-> "filter",
          wrote |-> FALSE]
    ELSE
    LET clusters_df ==
            IF skip THEN ReadJson(dst.clusters)
            ELSE Filter(srcdf, {i \in DOMAIN srcdf.rows :
                                  ClusterMatches(srcdf.rows[i], tags)})
        dst1 == IF skip THEN dst
                ELSE [dst EXCEPT !.clusters = write_multiline_df(clusters_df)]
        branch == IF skip THEN "skip" ELSE "filter"
    IN
    IF "cluster_id" \notin clusters_df.cols
    THEN [raised |-> TRUE, dst |-> dst1, ret |-> <<>>, branch |-> branch,
          wrote |-> ~skip]
    ELSE
    LET copied_clusters ==
            [i \in DOMAIN clusters_df.rows |-> clusters_df.rows[i].cluster_id]
    IN
    IF Skips(dst1.acl_clusters, overwrite)
    THEN [raised |-> FALSE, dst |-> dst1, ret |-> copied_clusters, branch |-> branch,
          wrote |-> ~skip]
    ELSE
    IF ~src.acl_clusters.exists \/ "object_id" \notin ReadJson(src.acl_clusters).cols
    THEN [raised |-> TRUE, dst |-> dst1, ret |-> <<>>, branch |-> branch,
          wrote |-> ~skip]
    ELSE [raised |-> FALSE,
          dst    |-> [dst1 EXCEPT !.acl_clusters = write_multiline_df(
                        AclKept(ReadJson(src.acl_clusters), copied_clusters))],
          ret    |-> copied_clusters,
          branch |-> branch,
          wrote  |-> ~skip]

\* line 160: settings.existing_cluster_id.isin(clusters) for one row
JobOnKeptCluster(row, clusters) ==
    /\ "existing_cluster_id" \in DOMAIN row.settings
    /\ row.settings.existing_cluster_id \in Range(clusters)

\* the row has settings.new_cluster.custom_tags.z_team
JobHasTeam(row) ==
    /\ "new_cluster" \in DOMAIN row.settings
    /\ "custom_tags" \in DOMAIN row.settings.new_cluster
    /\ "z_team" \in DOMAIN row.settings.new_cluster.custom_tags

\* line 163: new_cluster.custom_tags.z_team.isin(tags) for one row
JobTagged(row, tags) ==
    /\ JobHasTeam(row)
    /\ row.settings.new_cluster.custom_tags.z_team \in tags

\* the keys of the dicts under settings.new_cluster, over all rows
NewClusterCols(rows) ==
    UNION {DOMAIN rows[i].settings.new_cluster :
             i \in {j \in DOMAIN rows : "new_cluster" \in DOMAIN rows[j].settings}}

\* the keys of the dicts under settings.new_cluster.custom_tags, over all rows
JobTagCols(rows) ==
    UNION {DOMAIN rows[i].settings.new_cluster.custom_tags :
             i \in {j \in DOMAIN rows :
                      /\ "new_cluster" \in DOMAIN rows[j].settings
                      /\ "custom_tags" \in DOMAIN rows[j].settings.new_cluster}}

\* lines 159-166 raise: a column the code reads by attribute is in no row
JobFilterRaises(srcdf) ==
    \/ "settings" \notin srcdf.cols
    \/ "existing_cluster_id" \notin SubCols(srcdf.rows, "settings")
    \/ "new_cluster" \notin SubCols(srcdf.rows, "settings")
    \/ /\ "custom_tags" \in NewClusterCols(srcdf.rows)
       /\ "z_team" \notin JobTagCols(srcdf.rows)

\* lines 159-166: jobs_existing, jobs_new and their concatenation
JobFilter(srcdf, tags, clusters) ==
    IF "custom_tags" \in NewClusterCols(srcdf.rows)
    THEN Concat(Filter(srcdf, {i \in DOMAIN srcdf.rows :
                                 JobOnKeptCluster(srcdf.rows[i], clusters)}),
                Filter(srcdf, {i \in DOMAIN srcdf.rows :
                                 JobTagged(srcdf.rows[i], tags)}))
    ELSE Filter(srcdf, {i \in DOMAIN srcdf.rows :
                          JobOnKeptCluster(srcdf.rows[i], clusters)})

\* lines 170-177 (job ACLs), jobs_df being the frame the first half left
JobAcls(jobs_df, branch, wrote, src, dst, overwrite) ==
    IF Skips(dst.acl_jobs, overwrite)
    THEN [raised |-> FALSE, dst |-> dst, job_ids |-> <<>>, branch |-> branch,
          wrote |-> wrote]
    ELSE IF "job_id" \notin jobs_df.cols
    THEN [raised |-> TRUE, dst |-> dst, job_ids |-> <<>>, branch |-> branch,
          wrote |-> wrote]
    ELSE IF ~src.acl_jobs.exists \/ "object_id" \notin ReadJson(src.acl_jobs).cols
    THEN [raised |-> TRUE, dst |-> dst,
          job_ids |-> [i \in DOMAIN jobs_df.rows |-> Str(jobs_df.rows[i].job_id)],
          branch |-> branch, wrote |-> wrote]
    ELSE [raised |-> FALSE,
          dst    |-> [dst EXCEPT !.acl_jobs = write_multiline_df(
                        AclKept(ReadJson(src.acl_jobs),
                                [i \in DOMAIN jobs_df.rows |->
                                    Str(jobs_df.rows[i].job_id)]))],
          job_ids |-> [i \in DOMAIN jobs_df.rows |-> Str(jobs_df.rows[i].job_id)],
          branch |-> branch,
          wrote  |-> wrote]

\* prune_jobs: job_ids is the list the Job-ACL filter matched against (<<>> when
\* line 174 was not reached); wrote tells whether line 168 wrote jobs.log
prune_jobs(tags, clusters, src, dst, overwrite) ==
    IF ~src.jobs.exists
    THEN [raised |-> FALSE, dst |-> dst, job_ids |-> <<>>, branch |-> "missing",
          wrote |-> FALSE]
    ELSE IF Skips(dst.jobs, overwrite)
    THEN JobAcls(ReadJson(dst.jobs), "skip", FALSE, src, dst, overwrite)
    ELSE IF JobFilterRaises(ReadJson(src.jobs))
    THEN [raised |-> TRUE, dst |-> dst, job_ids |-> <<>>, branch |-> "filter",
          wrote |-> FALSE]
    ELSE JobAcls(JobFilter(ReadJson(src.jobs), tags, clusters), "filter", TRUE, src,
                 [dst EXCEPT !.jobs = write_multiline_df(
                    JobFilter(ReadJson(src.jobs), tags, clusters))],
                 overwrite)

\* prune_instance_profiles
prune_instance_profiles(tags, src, dst, overwrite) ==
    IF ~src.instance_profiles.exists
    THEN [raised |-> FALSE, dst |-> dst, branch |-> "missing"]
    ELSE IF Skips(dst.instance_profiles, overwrite)
    THEN [raised |-> FALSE, dst |-> dst, branch |-> "skip"]
    ELSE
    LET ip_df == ReadJson(src.instance_profiles) IN
    IF "instance_profile_arn" \notin ip_df.cols
    THEN [raised |-> TRUE, dst |-> dst, branch |-> "filter"]
    ELSE
    LET kept == Filter(ip_df, {i \in DOMAIN ip_df.rows :
                    \E t \in tags :
                        IsSubstring(Replace(t, "_", "-"),
                                    ip_df.rows[i].instance_profile_arn)})
    IN [raised |-> FALSE,
        dst    |-> [dst EXCEPT !.instance_profiles = write_multiline_df(kept)],
        branch |-> "filter"]

\* a file or directory as safe_copy sees it: kind is "none", "file" or "dir";
\* holds is what shutil.copy2 has put inside a directory
Nothing == [kind |-> "none", data |-> "none", holds |-> {}]

\* shutil.copy2(src, dst) of a file: onto dst, or into dst when dst is a directory
copy2(s, d) ==
    IF d.kind = "dir" THEN [d EXCEPT !.holds = @ \cup {s.data}] ELSE s

\* safe_copy(src, dst, overwrite): whether it raised, and the destination entry
\* afterwards. shutil.rmtree of a destination that is a file raises
\* NotADirectoryError and leaves the file.
safe_copy(s, d, overwrite) ==
    IF overwrite
    THEN (IF s.kind = "file" THEN [raised |-> FALSE, entry |-> copy2(s, d)]
          ELSE IF s.kind = "dir"
          THEN (IF d.kind = "file" THEN [raised |-> TRUE, entry |-> d]
                ELSE [raised |-> FALSE, entry |-> s])
          ELSE [raised |-> FALSE, entry |-> d])
    ELSE (IF d.kind = "none"
          THEN (IF s.kind = "file" THEN [raised |-> FALSE, entry |-> copy2(s, d)]
                ELSE IF s.kind = "dir" THEN [raised |-> FALSE, entry |-> s]
                ELSE [raised |-> FALSE, entry |-> d])
          ELSE [raised |-> FALSE, entry |-> d])

\* userNames of the members of one group file
GroupUsers(group) == {group.members[i].userName : i \in DOMAIN group.members}

\* prune_groups: a groups directory is [exists, files], files a function from
\* file name to the parsed group (an entry of the destination groups/ is a file,
\* so the copy at line 220 replaces it and does not raise)
prune_groups(tags, src, dst, overwrite) ==
    LET skip   == Skips(dst.groups, overwrite)
        branch == IF skip THEN "skip" ELSE "filter"
        dst1   == IF skip THEN dst ELSE [dst EXCEPT !.groups.exists = TRUE]
        target_group_dir == IF skip THEN dst.groups ELSE src.groups
    IN
    IF ~target_group_dir.exists
    THEN [raised |-> TRUE, dst |-> dst1, ret |-> {}, branch |-> branch]
    ELSE
    LET group_list == DOMAIN target_group_dir.files
        matching   == {g \in group_list :
                         \E x \in tags : IsSubstring(Replace(x, "_", "-"), g)}
        copied     == IF skip THEN dst1.groups.files
                      ELSE [g \in DOMAIN dst1.groups.files \cup matching |->
                              IF g \in matching
                              THEN safe_copy(
                                     [kind |-> "file", data |-> src.groups.files[g],
                                      holds |-> {}],
                                     IF g \in DOMAIN dst1.groups.files
                                     THEN [kind |-> "file",
                                           data |-> dst1.groups.files[g],
                                           holds |-> {}]
                                     ELSE Nothing,
                                     TRUE).entry.data
                              ELSE dst1.groups.files[g]]
        dst2       == [dst1 EXCEPT !.groups.files = copied]
    IN
    IF \E g \in matching : ~src.groups.exists \/ g \notin DOMAIN src.groups.files
    THEN [raised |-> TRUE, dst |-> dst2, ret |-> {}, branch |-> branch]
    ELSE [raised |-> FALSE, dst |-> dst2,
          ret    |-> UNION {GroupUsers(src.groups.files[g]) : g \in matching},
          branch |-> branch]

\* prune_users
prune_users(users_to_keep, src, dst, overwrite) ==
    IF ~src.users.exists
    THEN [raised |-> FALSE, dst |-> dst, branch |-> "missing"]
    ELSE IF Skips(dst.users, overwrite)
    THEN [raised |-> FALSE, dst |-> dst, branch |-> "skip"]
    ELSE
    LET users_df == ReadJson(src.users) IN
    IF "id" \notin users_df.cols \/ "userName" \notin users_df.cols
    THEN [raised |-> TRUE, dst |-> dst, branch |-> "filter"]
    ELSE
    LET typed == [cols |-> users_df.cols,
                  rows |-> [i \in DOMAIN users_df.rows |->
                              [users_df.rows[i] EXCEPT !.id = Str(@)]]]
        kept  == Filter(typed, {i \in DOMAIN typed.rows :
                                  typed.rows[i].userName \in users_to_keep})
    IN [raised |-> FALSE,
        dst    |-> [dst EXCEPT !.users = write_multiline_df(kept)],
        branch |-> "filter"]

\* the keep-sets of prune_workspace_metadata before any is computed; skipped
\* names the logs whose write lines 285 and 298 skipped
NoKeep == [copied_dirs |-> <<>>, dir_ids |-> <<>>, file_ids |-> <<>>, skipped |-> {}]

\* the outcome of prune_workspace_metadata when an exception leaves it
MetaRaised(dst, k) == [raised |-> TRUE, dst |-> dst, branch |-> "filter", keep |-> k]

\* tags_short = [t.split("_")[1] for t in tags]; defined when every tag has a "_"
TagsShort(tags) == {Split(t, "_")[2] : t \in tags}

\* the list comprehension over t.split("_")[1] raises IndexError
TagsShortRaises(tags) == \E t \in tags : Len(Split(t, "_")) < 2

\* the outcome of prune_workspace_metadata when it returns
MetaDone(dst, k) == [raised |-> FALSE, dst |-> dst, branch |-> "filter", keep |-> k]

\* reading an ACL log and taking column 2 of its expanded object_id raises
AclRaises(file) ==
    \/ ~file.exists
    \/ "object_id" \notin ReadJson(file).cols
    \/ ExpandWidth(file.rows, "object_id") < 3

\* prune_workspace_metadata, lines 319-328 (libraries); k holds the keep-sets
\* computed so far, dst the destination as written so far
MetaLibraries(k, src, dst, overwrite) ==
    IF Skips(dst.libraries, overwrite) THEN MetaDone(dst, k)
    ELSE IF ~src.libraries.exists
    THEN MetaRaised(dst, k)
    ELSE
    LET library_df == ReadJson(src.libraries) IN
    IF Len(library_df.rows) = 0 THEN MetaDone(dst, k)
    ELSE IF "path" \notin library_df.cols
    THEN MetaRaised(dst, k)
    ELSE MetaDone([dst EXCEPT !.libraries = write_multiline_df(
                     Filter(library_df, {i \in DOMAIN library_df.rows :
                         ParentPath(library_df.rows[i].path) \in Range(k.copied_dirs)}))],
                  k)

\* lines 311-317 (object ACLs)
MetaObjectAcls(k, src, dst, overwrite) ==
    IF Skips(dst.acl_notebooks, overwrite)
    THEN MetaLibraries(k, src, dst, overwrite)
    ELSE IF AclRaises(src.acl_notebooks)
    THEN MetaRaised(dst, k)
    ELSE MetaLibraries(k, src,
            [dst EXCEPT !.acl_notebooks = write_multiline_df(
                AclKept(ReadJson(src.acl_notebooks), k.file_ids))],
            overwrite)

\* lines 303-309 (directory ACLs)
MetaDirectoryAcls(k, src, dst, overwrite) ==
    IF Skips(dst.acl_directories, overwrite)
    THEN MetaObjectAcls(k, src, dst, overwrite)
    ELSE IF AclRaises(src.acl_directories)
    THEN MetaRaised(dst, k)
    ELSE MetaObjectAcls(k, src,
            [dst EXCEPT !.acl_directories = write_multiline_df(
                AclKept(ReadJson(src.acl_directories), k.dir_ids))],
            overwrite)

\* lines 297-301 (writing user_workspace.log)
MetaWriteObjects(k, workspace_df, src, dst, overwrite) ==
    MetaDirectoryAcls(
        IF Skips(dst.user_workspace, overwrite)
        THEN [k EXCEPT !.skipped = @ \cup {"user_workspace"}] ELSE k,
        src,
        IF Skips(dst.user_workspace, overwrite) THEN dst
        ELSE [dst EXCEPT !.user_workspace = write_multiline_df(workspace_df)],
        overwrite)

\* lines 290-295 (workspace objects under the kept directories)
MetaObjects(k, src, dst, overwrite) ==
    IF ~src.user_workspace.exists
    THEN MetaRaised(dst, k)
    ELSE
    LET ws == ReadJson(src.user_workspace) IN
    IF "path" \notin ws.cols \/ "object_id" \notin ws.cols
    THEN MetaRaised(dst, k)
    ELSE
    LET workspace_df == Filter(ws, {i \in DOMAIN ws.rows :
                            ParentPath(ws.rows[i].path) \in Range(k.copied_dirs)})
    IN MetaWriteObjects(
          [k EXCEPT !.file_ids = [i \in DOMAIN workspace_df.rows |->
                                    Str(workspace_df.rows[i].object_id)]],
          workspace_df, src, dst, overwrite)

\* lines 280-288 (the kept directories, their paths and ids, user_dirs.log)
MetaWriteDirs(top_level_dirs, all_dirs, src, dst, overwrite) ==
    MetaObjects(
        [copied_dirs |-> [i \in DOMAIN all_dirs.rows |-> all_dirs.rows[i].path],
         dir_ids     |-> [i \in DOMAIN all_dirs.rows |-> Str(all_dirs.rows[i].object_id)],
         file_ids    |-> <<>>,
         skipped     |-> IF Skips(dst.user_dirs, overwrite) THEN {"user_dirs"} ELSE {}],
        src,
        IF Skips(dst.user_dirs, overwrite) THEN dst
        ELSE [dst EXCEPT !.user_dirs =
                write_multiline_df(Concat(top_level_dirs, all_dirs))],
        overwrite)

\* line 272: directories whose path has exactly two pieces
TopLevelDirs(df) ==
    Filter(df, {i \in DOMAIN df.rows : Len(Split(df.rows[i].path, "/")) = 2})

\* lines 273-274: directories whose piece 1 is `word`
DirsUnder(df, word) ==
    Filter(df, {i \in DOMAIN df.rows : SegAt(df.rows[i].path, 1) = <<word>>})

\* lines 277 and 279: rows of dirs whose piece 2 is one of names
DirsNamed(dirs, names) ==
    Filter(dirs, {i \in DOMAIN dirs.rows :
                    LET seg == SegAt(dirs.rows[i].path, 2)
                    IN seg # <<>> /\ seg[1] \in names})

\* lines 276-279 (filtering the user and team directories)
MetaFilterDirs(tags, users_to_keep, user_dir_df, src, dst, overwrite) ==
    IF \/ ExpandWidth(DirsUnder(user_dir_df, W_Users).rows, "path") < 3
       \/ TagsShortRaises(tags)
       \/ ExpandWidth(DirsUnder(user_dir_df, W_teams).rows, "path") < 3
       \/ "object_id" \notin user_dir_df.cols
    THEN MetaRaised(dst, NoKeep)
    ELSE MetaWriteDirs(
            TopLevelDirs(user_dir_df),
            Concat(DirsNamed(DirsUnder(user_dir_df, W_Users), users_to_keep),
                   DirsNamed(DirsUnder(user_dir_df, W_teams),
                             TagsShort(tags) \cup tags)),
            src, dst, overwrite)

\* prune_workspace_metadata; copied_dirs, dir_ids and file_ids are the keep-sets
\* the function computed before it returned or raised
prune_workspace_metadata(tags, users_to_keep, src, dst, overwrite) ==
    IF /\ ~overwrite
       /\ dst.user_dirs.exists /\ dst.user_workspace.exists
       /\ dst.acl_directories.exists /\ dst.acl_notebooks.exists
       /\ dst.libraries.exists
    THEN [raised |-> FALSE, dst |-> dst, branch |-> "skip", keep |-> NoKeep]
    ELSE IF \/ ~src.user_dirs.exists
            \/ "path" \notin ReadJson(src.user_dirs).cols
            \/ ExpandWidth(src.user_dirs.rows, "path") < 2
    THEN MetaRaised(dst, NoKeep)
    ELSE MetaFilterDirs(tags, users_to_keep, ReadJson(src.user_dirs),
                        src, dst, overwrite)

\* an artifact subtree of the source, as safe_copy sees it
Subtree(root, d) == [kind |-> "dir", data |-> <<root, d>>, holds |-> {}]

\* prune_artifacts: a source artifacts root is [exists, dirs]; the destination
\* keeps the names of the subtrees copied under artifacts/teams and artifacts/Users
\* (an entry there is a directory, so safe_copy's rmtree does not raise)
prune_artifacts(tags, users_to_keep, src, dst, overwrite) ==
    LET dst1 == [dst EXCEPT !.artifacts.exists = TRUE]
        CopyAll(root, have, names) ==
            {d \in have \cup names :
                (IF d \in names
                 THEN safe_copy(Subtree(root, d),
                                IF d \in have THEN Subtree(root, d) ELSE Nothing,
                                overwrite).entry
                 ELSE Subtree(root, d)).kind = "dir"}
    IN
    IF ~src.artifacts.teams.exists
    THEN [raised |-> FALSE, dst |-> dst1, branch |-> "noteams"]
    ELSE
    IF src.artifacts.teams.dirs # {} /\ TagsShortRaises(tags)
    THEN [raised |-> TRUE, dst |-> dst1, branch |-> "teams"]
    ELSE
    LET team_match == {d \in src.artifacts.teams.dirs : d \in TagsShort(tags)}
        dst2 == [dst1 EXCEPT !.artifacts.teams =
                    CopyAll("teams", dst1.artifacts.teams, team_match)]
    IN
    IF ~src.artifacts.Users.exists
    THEN [raised |-> TRUE, dst |-> dst2, branch |-> "teams"]
    ELSE
    LET user_match == {d \in src.artifacts.Users.dirs : d \in users_to_keep}
    IN [raised |-> FALSE,
        dst    |-> [dst2 EXCEPT !.artifacts.Users =
                      CopyAll("Users", dst2.artifacts.Users, user_match)],
        branch |-> "teams"]

\* the resources prune_all_resources copies verbatim, in the order of the calls
Verbatim ==
    <<"instance_pools.log", "cluster_policies.log", "acl_cluster_policies.log",
      "table_acls", "database_details.log", "secret_scopes",
      "secret_scopes_acls.log", "source_info.txt",
      "cluster_ids_to_change_creator.log", "original_creator_user_ids.log",
      "user_name_to_user_id.log">>

Metastore == <<"metastore", "metastore_views">>

\* the safe_copy calls names[i..] in order: the first that raises ends them
RECURSIVE CopyFrom(_, _, _, _, _)
CopyFrom(names, i, from, other, overwrite) ==
    IF i > Len(names) THEN [raised |-> FALSE, other |-> other]
    ELSE IF safe_copy(from[names[i]], other[names[i]], overwrite).raised
    THEN [raised |-> TRUE, other |-> other]
    ELSE CopyFrom(names, i + 1, from,
                  [other EXCEPT ![names[i]] =
                      safe_copy(from[names[i]], other[names[i]], overwrite).entry],
                  overwrite)

\* the trailing safe_copy calls of prune_all_resources
copy_resources(src, dst, overwrite, metastore_flag) ==
    CopyFrom(Verbatim \o (IF metastore_flag THEN <<>> ELSE Metastore), 1,
             src.other, dst.other, overwrite)

\* ------------------------------------------------------------------ source trees

GroupA   == <<"t", "e", "a", "m", "-", "a">>
GroupB   == <<"t", "e", "a", "m", "-", "b">>
GroupOps == <<"o", "p", "s">>
DirA     == <<"a">>
DirB     == <<"b">>
W_Shared == <<"S", "h">>
Nb       == <<"n">>

Member(u) == [userName |-> u]
Dir(segs, id) == [path |-> Path(segs), object_id |-> id]
Entry(kind, name) == [kind |-> kind, data |-> name, holds |-> {}]

BaseOther ==
    [n \in Range(Verbatim) \cup Range(Metastore) |->
        IF n \in {"table_acls", "secret_scopes", "metastore", "metastore_views"}
        THEN Entry("dir", n)
        ELSE IF n = "source_info.txt" THEN Nothing
        ELSE Entry("file", n)]

\* a complete export: every stage has its input
BaseSrc ==
    [exists            |-> TRUE,
     clusters          |-> File(<<ClusterA, ClusterB, ClusterNoTeam, ClusterNoTags>>),
     acl_clusters      |-> File(<<AclCluster(C1id), AclCluster(C2id), AclCluster(C4id)>>),
     jobs              |-> File(<<JobExisting, JobNewA, JobNewPlain, JobNeither, JobOnB>>),
     acl_jobs          |-> File(<<AclJob(1), AclJob(2), AclJob(4), AclJob(6)>>),
     instance_profiles |-> File(<<[instance_profile_arn |-> <<"p", "/">> \o GroupA],
                                  [instance_profile_arn |-> <<"p", "/">> \o GroupB]>>),
     groups            |-> [exists |-> TRUE,
                            files  |-> (GroupA :> [members |-> <<Member(U1), Member(U2)>>])
                                    @@ (GroupB :> [members |-> <<Member(U2)>>])
                                    @@ (GroupOps :> [members |-> <<Member(U3)>>])],
     users             |-> File(<<[userName |-> U1, id |-> 1], [userName |-> U2, id |-> 2],
                                  [userName |-> U3, id |-> 3]>>),
     user_dirs         |-> File(<<Dir(<<W_Users>>, 1), Dir(<<W_Users, U1>>, 2),
                                  Dir(<<W_Users, U3>>, 3), Dir(<<W_teams, DirA>>, 4),
                                  Dir(<<W_teams, GroupA>>, 5), Dir(<<W_teams, DirB, Nb>>, 6),
                                  Dir(<<W_Shared, Nb>>, 7)>>),
     user_workspace    |-> File(<<Dir(<<W_Users, U1, Nb>>, 11), Dir(<<W_teams, DirA, Nb>>, 12),
                                  Dir(<<W_Shared, Nb, Nb>>, 13),
                                  Dir(<<W_teams, DirB, Nb, Nb>>, 14)>>),
     acl_directories   |-> File(<<AclDir(2), AclDir(4), AclDir(6), AclDir(7)>>),
     acl_notebooks     |-> File(<<AclNotebook(11), AclNotebook(12), AclNotebook(13),
                                  AclNotebook(14)>>),
     libraries         |-> File(<<[path |-> Path(<<W_teams, DirA, Nb>>)],
                                  [path |-> Path(<<W_Shared, Nb, Nb>>)]>>),
     artifacts         |-> [teams |-> [exists |-> TRUE, dirs |-> {DirA, DirB}],
                            Users |-> [exists |-> TRUE, dirs |-> {U1, U2, U3}]],
     other             |-> BaseOther]

NoDir == [exists |-> FALSE, dirs |-> {}]

\* the export with one expected input absent
MissingInput ==
    {[BaseSrc EXCEPT !.clusters = NoFile],
     [BaseSrc EXCEPT !.acl_clusters = NoFile],
     [BaseSrc EXCEPT !.jobs = NoFile],
     [BaseSrc EXCEPT !.acl_jobs = NoFile],
     [BaseSrc EXCEPT !.instance_profiles = NoFile],
     [BaseSrc EXCEPT !.groups = [exists |-> FALSE, files |-> <<>>]],
     [BaseSrc EXCEPT !.users = NoFile],
     [BaseSrc EXCEPT !.user_dirs = NoFile],
     [BaseSrc EXCEPT !.user_workspace = NoFile],
     [BaseSrc EXCEPT !.acl_directories = NoFile],
     [BaseSrc EXCEPT !.acl_notebooks = NoFile],
     [BaseSrc EXCEPT !.libraries = NoFile],
     [BaseSrc EXCEPT !.artifacts.Users = NoDir]}

\* exports whose records lack a field, or that exercise one stage's corner
Variants ==
    {[BaseSrc EXCEPT !.libraries = File(<<>>)],
     [BaseSrc EXCEPT !.jobs = File(<<JobExisting, JobOnB>>)],
     [BaseSrc EXCEPT !.jobs = File(<<JobBoth, JobNewNoTeam, JobOnB>>)],
     [BaseSrc EXCEPT !.clusters = File(<<ClusterNoTags>>)],
     [BaseSrc EXCEPT !.artifacts.teams = NoDir],
     [BaseSrc EXCEPT !.exists = FALSE]}

Sources == {BaseSrc} \cup MissingInput \cup Variants

EmptyDst ==
    [exists            |-> FALSE,
     clusters          |-> NoFile,
     acl_clusters      |-> NoFile,
     jobs              |-> NoFile,
     acl_jobs          |-> NoFile,
     instance_profiles |-> NoFile,
     groups            |-> [exists |-> FALSE, files |-> <<>>],
     users             |-> NoFile,
     user_dirs         |-> NoFile,
     user_workspace    |-> NoFile,
     acl_directories   |-> NoFile,
     acl_notebooks     |-> NoFile,
     libraries         |-> NoFile,
     artifacts         |-> [exists |-> FALSE, teams |-> {}, Users |-> {}],
     other             |-> [n \in Range(Verbatim) \cup Range(Metastore) |-> Nothing]]

\* a destination directory that exists before the first run and holds a directory
\* named instance_pools.log and a file named secret_scopes
OddDst ==
    [EmptyDst EXCEPT !.exists = TRUE,
                     !.other["instance_pools.log"] = Entry("dir", "old"),
                     !.other["secret_scopes"] = Entry("file", "old")]

Dsts == {EmptyDst, OddDst}

\* ------------------------------------------------------------------ state machine

\* invocations of prune_all_resources against one destination
MaxRuns == 2

VARIABLES
    src,              \* the export tree the runs read
    dst,              \* the destination tree
    pc,               \* the stage prune_all_resources is about to run, or "idle"
    runs,             \* invocations started so far
    limit,            \* invocations the operator makes against this destination
    tags, overwrite, metastore_flag,   \* arguments of the current (or last) run
    prev_tags,        \* tags of the run before it
    clusters_to_keep, \* prune_clusters' return value
    users_to_keep,    \* prune_groups' return value
    seen,             \* per stage, the branch it took and the keep-sets it computed
    outcome           \* "none", "running", "returned 0", "returned -1", "raised"

vars == <<src, dst, pc, runs, limit, tags, overwrite, metastore_flag, prev_tags,
          clusters_to_keep, users_to_keep, seen, outcome>>

NotSeen ==
    [clusters |-> "none", jobs |-> "none", profiles |-> "none", groups |-> "none",
     users |-> "none", metadata |-> "none", artifacts |-> "none", raisedAt |-> "none",
     wrote_clusters |-> FALSE, wrote_jobs |-> FALSE, job_ids |-> <<>>,
     keep |-> NoKeep]

InitWith(s, d, n) ==
    /\ src = s
    /\ limit = n
    /\ dst = d
    /\ pc = "idle"
    /\ runs = 0
    /\ tags = {}
    /\ prev_tags = {}
    /\ overwrite = FALSE
    /\ metastore_flag = FALSE
    /\ clusters_to_keep = <<>>
    /\ users_to_keep = {}
    /\ seen = NotSeen
    /\ outcome = "none"

\* every source against a fresh destination, the complete one also against OddDst
Init ==
    \E s \in Sources, d \in Dsts :
        /\ d = OddDst => s = BaseSrc
        /\ InitWith(s, d, MaxRuns)

\* an uncaught exception leaves prune_all_resources
Raise ==
    /\ pc' = "idle"
    /\ outcome' = "raised"

\* between two invocations: after a run that raised, the export is taken again
\* and is complete; nothing the run held in memory survives it
Reexport ==
    /\ pc = "idle"
    /\ outcome = "raised"
    /\ runs < limit
    /\ src # BaseSrc
    /\ src' = BaseSrc
    /\ outcome' = "none"
    /\ clusters_to_keep' = <<>>
    /\ users_to_keep' = {}
    /\ seen' = NotSeen
    /\ UNCHANGED <<dst, pc, runs, limit, tags, overwrite, metastore_flag, prev_tags>>

\* main(): prune_all_resources up to the first stage
Start ==
    /\ pc = "idle"
    /\ runs < limit
    /\ \E t \in TagSets, ow \in BOOLEAN, ms \in BOOLEAN :
        /\ tags' = t
        /\ overwrite' = ow
        /\ metastore_flag' = ms
    /\ prev_tags' = tags
    /\ runs' = runs + 1
    /\ clusters_to_keep' = <<>>
    /\ users_to_keep' = {}
    /\ seen' = NotSeen
    /\ IF ~src.exists
       THEN /\ pc' = "idle"
            /\ outcome' = "returned -1"
            /\ dst' = dst
       ELSE /\ pc' = "clusters"
            /\ outcome' = "running"
            /\ dst' = [dst EXCEPT !.exists = TRUE]
    /\ UNCHANGED <<src, limit>>

StepClusters ==
    /\ pc = "clusters"
    /\ LET r == prune_clusters(tags, src, dst, overwrite) IN
        /\ dst' = r.dst
        /\ clusters_to_keep' = r.ret
        /\ seen' = [seen EXCEPT !.clusters = r.branch, !.wrote_clusters = r.wrote,
                                !.raisedAt = IF r.raised THEN "clusters" ELSE @]
        /\ IF r.raised THEN Raise
           ELSE pc' = "jobs" /\ outcome' = outcome
    /\ UNCHANGED <<src, runs, limit, tags, overwrite, metastore_flag, prev_tags, users_to_keep>>

StepJobs ==
    /\ pc = "jobs"
    /\ LET r == prune_jobs(tags, clusters_to_keep, src, dst, overwrite) IN
        /\ dst' = r.dst
        /\ seen' = [seen EXCEPT !.jobs = r.branch, !.job_ids = r.job_ids,
                                !.wrote_jobs = r.wrote,
                                !.raisedAt = IF r.raised THEN "jobs" ELSE @]
        /\ IF r.raised THEN Raise
           ELSE pc' = "profiles" /\ outcome' = outcome
    /\ UNCHANGED <<src, runs, limit, tags, overwrite, metastore_flag, prev_tags,
                   clusters_to_keep, users_to_keep>>

StepProfiles ==
    /\ pc = "profiles"
    /\ LET r == prune_instance_profiles(tags, src, dst, overwrite) IN
        /\ dst' = r.dst
        /\ seen' = [seen EXCEPT !.profiles = r.branch,
                                !.raisedAt = IF r.raised THEN "profiles" ELSE @]
        /\ IF r.raised THEN Raise
           ELSE pc' = "groups" /\ outcome' = outcome
    /\ UNCHANGED <<src, runs, limit, tags, overwrite, metastore_flag, prev_tags,
                   clusters_to_keep, users_to_keep>>

StepGroups ==
    /\ pc = "groups"
    /\ LET r == prune_groups(tags, src, dst, overwrite) IN
        /\ dst' = r.dst
        /\ users_to_keep' = r.ret
        /\ seen' = [seen EXCEPT !.groups = r.branch,
                                !.raisedAt = IF r.raised THEN "groups" ELSE @]
        /\ IF r.raised THEN Raise
           ELSE pc' = "users" /\ outcome' = outcome
    /\ UNCHANGED <<src, runs, limit, tags, overwrite, metastore_flag, prev_tags,
                   clusters_to_keep>>

StepUsers ==
    /\ pc = "users"
    /\ LET r == prune_users(users_to_keep, src, dst, overwrite) IN
        /\ dst' = r.dst
        /\ seen' = [seen EXCEPT !.users = r.branch,
                                !.raisedAt = IF r.raised THEN "users" ELSE @]
        /\ IF r.raised THEN Raise
           ELSE pc' = "metadata" /\ outcome' = outcome
    /\ UNCHANGED <<src, runs, limit, tags, overwrite, metastore_flag, prev_tags,
                   clusters_to_keep, users_to_keep>>

StepMetadata ==
    /\ pc = "metadata"
    /\ LET r == prune_workspace_metadata(tags, users_to_keep, src, dst, overwrite) IN
        /\ dst' = r.dst
        /\ seen' = [seen EXCEPT !.metadata = r.branch, !.keep = r.keep,
                                !.raisedAt = IF r.raised THEN "metadata" ELSE @]
        /\ IF r.raised THEN Raise
           ELSE pc' = "artifacts" /\ outcome' = outcome
    /\ UNCHANGED <<src, runs, limit, tags, overwrite, metastore_flag, prev_tags,
                   clusters_to_keep, users_to_keep>>

StepArtifacts ==
    /\ pc = "artifacts"
    /\ LET r == prune_artifacts(tags, users_to_keep, src, dst, overwrite) IN
        /\ dst' = r.dst
        /\ seen' = [seen EXCEPT !.artifacts = r.branch,
                                !.raisedAt = IF r.raised THEN "artifacts" ELSE @]
        /\ IF r.raised THEN Raise
           ELSE pc' = "copy" /\ outcome' = outcome
    /\ UNCHANGED <<src, runs, limit, tags, overwrite, metastore_flag, prev_tags,
                   clusters_to_keep, users_to_keep>>

\* the verbatim copies and `return 0`
StepCopy ==
    /\ pc = "copy"
    /\ LET r == copy_resources(src, dst, overwrite, metastore_flag) IN
        /\ dst' = [dst EXCEPT !.other = r.other]
        /\ seen' = [seen EXCEPT !.raisedAt = IF r.raised THEN "copy" ELSE @]
        /\ IF r.raised THEN Raise
           ELSE pc' = "idle" /\ outcome' = "returned 0"
    /\ UNCHANGED <<src, runs, limit, tags, overwrite, metastore_flag, prev_tags,
                   clusters_to_keep, users_to_keep>>

Next ==
    \/ Start
    \/ StepClusters
    \/ StepJobs
    \/ StepProfiles
    \/ StepGroups
    \/ StepUsers
    \/ StepMetadata
    \/ StepArtifacts
    \/ StepCopy
    \/ Reexport

Spec == Init /\ [][Next]_vars

\* ------------------------------------------------------------------ wide inputs

\* rows of the source clusters.log in SpecClusters
MaxClusterRows == 2

SeqsUpTo(S, n) == UNION {[1..k -> S] : k \in 0..n}

\* every clusters.log of at most MaxClusterRows records, in an otherwise complete
\* export; one run against a fresh destination and one against what it left
InitClusters ==
    \E rows \in SeqsUpTo(ClusterRecords, MaxClusterRows) :
        InitWith([BaseSrc EXCEPT !.clusters = File(rows)], EmptyDst, 2)

SpecClusters == InitClusters /\ [][Next]_vars

\* ------------------------------------------------------------------ claims

ColumnOf(file, col) == {file.rows[i][col] : i \in DOMAIN file.rows}
StrColumnOf(file, col) == {Str(file.rows[i][col]) : i \in DOMAIN file.rows}

\* every row of the ACL log names, in the third piece of its object_id, one of ids
RefersTo(acl, ids) ==
    \A i \in DOMAIN acl.rows : SegAt(acl.rows[i].object_id, 2) \in {<<id>> : id \in ids}

\* C1: when prune_clusters takes its filtering branch, every record it writes to
\* the destination clusters.log carries custom_tags.z_team with a value among the
\* requested tags (so no record lacking custom_tags or z_team is written), and the
\* list it returns holds exactly the cluster_id values of the written records.
C1_ClusterFilter ==
    /\ (seen.clusters = "filter" /\ seen.wrote_clusters) =>
          \A i \in DOMAIN dst.clusters.rows :
              /\ "custom_tags" \in DOMAIN dst.clusters.rows[i]
              /\ "z_team" \in DOMAIN dst.clusters.rows[i].custom_tags
              /\ dst.clusters.rows[i].custom_tags.z_team \in tags
    /\ (seen.clusters = "filter" /\ seen.raisedAt # "clusters") =>
          /\ seen.wrote_clusters
          /\ Range(clusters_to_keep) = ColumnOf(dst.clusters, "cluster_id")

\* C1 witness: the filter wrote a non-empty clusters.log from a source that also
\* held an untagged record, and returned.
C1_Witness ==
    /\ seen.clusters = "filter" /\ seen.wrote_clusters /\ seen.raisedAt = "none"
    /\ Len(dst.clusters.rows) > 0
    /\ Len(dst.clusters.rows) < Len(src.clusters.rows)
    /\ \E i \in DOMAIN src.clusters.rows : "custom_tags" \notin DOMAIN src.clusters.rows[i]
    /\ runs = 2 /\ overwrite

\* C2: when prune_jobs takes its filtering branch, a source job is in the
\* destination jobs.log if and only if its existing_cluster_id is a kept cluster
\* or its new_cluster z_team tag is requested.
C2_JobKeptIff ==
    seen.jobs = "filter" =>
        \A i \in DOMAIN src.jobs.rows :
            (src.jobs.rows[i] \in Range(dst.jobs.rows))
                <=> (\/ JobOnKeptCluster(src.jobs.rows[i], clusters_to_keep)
                     \/ JobTagged(src.jobs.rows[i], tags))

\* C3: after a run that returned 0, every row of the four destination ACL logs
\* names a record of the matching destination entity log.
C3_ReferentialIntegrity ==
    outcome = "returned 0" =>
        /\ RefersTo(dst.acl_clusters, ColumnOf(dst.clusters, "cluster_id"))
        /\ RefersTo(dst.acl_jobs, StrColumnOf(dst.jobs, "job_id"))
        /\ RefersTo(dst.acl_directories, StrColumnOf(dst.user_dirs, "object_id"))
        /\ RefersTo(dst.acl_notebooks, StrColumnOf(dst.user_workspace, "object_id"))

\* what a step leaves in place of everything the destination already holds
KeepsExisting ==
    /\ \A f \in {"clusters", "acl_clusters", "jobs", "acl_jobs", "instance_profiles",
                 "users", "user_dirs", "user_workspace", "acl_directories",
                 "acl_notebooks", "libraries"} :
          dst[f].exists => dst'[f] = dst[f]
    /\ \A g \in DOMAIN dst.groups.files :
          g \in DOMAIN dst'.groups.files /\ dst'.groups.files[g] = dst.groups.files[g]
    /\ dst.artifacts.teams \subseteq dst'.artifacts.teams
    /\ dst.artifacts.Users \subseteq dst'.artifacts.Users
    /\ \A n \in DOMAIN dst.other :
          dst.other[n].kind # "none" => dst'.other[n] = dst.other[n]

\* C4: no step of a run with overwrite=false changes a file, group file, artifact
\* subtree or verbatim resource the destination already holds, whatever the tags
\* of the run and of the runs before it.
C4_SkipLeavesFiles == [][~overwrite' => KeepsExisting]_vars

\* C4 witness: a second run with overwrite=false and other tags returned 0 having
\* skipped the cluster, job and group stages over files the first run wrote.
C4_Witness ==
    /\ outcome = "returned 0" /\ runs = 2 /\ ~overwrite /\ tags # prev_tags
    /\ seen.clusters = "skip" /\ seen.jobs = "skip" /\ seen.groups = "skip"
    /\ seen.metadata = "skip"
    /\ Len(dst.clusters.rows) > 0
    /\ \E i \in DOMAIN dst.clusters.rows : ~ClusterMatches(dst.clusters.rows[i], tags)

\* paths of the user and team directories a user_dirs.log holds (every row but the
\* top-level ones)
KeptDirRows(file) == {i \in DOMAIN file.rows : Len(Split(file.rows[i].path, "/")) > 2}

\* C5: a stage skipped over an existing destination hands downstream the keep-set
\* the destination holds: clusters_kept the cluster_ids of the destination
\* clusters.log, the Job-ACL ids the job_ids of the destination jobs.log,
\* users_kept the members of the group files in the destination groups/, and
\* dirs_kept / dir_ids_kept / object_ids_kept the directories and objects of the
\* destination user_dirs.log and user_workspace.log.
C5_KeepSetsFromDestination ==
    /\ (seen.clusters = "skip" /\ seen.raisedAt # "clusters") =>
          Range(clusters_to_keep) = ColumnOf(dst.clusters, "cluster_id")
    /\ (seen.jobs = "skip" /\ seen.job_ids # <<>>) =>
          Range(seen.job_ids) = StrColumnOf(dst.jobs, "job_id")
    /\ (seen.groups = "skip" /\ seen.raisedAt # "groups") =>
          users_to_keep = UNION {GroupUsers(dst.groups.files[g]) :
                                   g \in DOMAIN dst.groups.files}
    /\ (seen.metadata = "filter" /\ seen.raisedAt # "metadata"
            /\ "user_dirs" \in seen.keep.skipped) =>
          /\ Range(seen.keep.copied_dirs) =
                {dst.user_dirs.rows[i].path : i \in KeptDirRows(dst.user_dirs)}
          /\ Range(seen.keep.dir_ids) =
                {Str(dst.user_dirs.rows[i].object_id) : i \in KeptDirRows(dst.user_dirs)}
    /\ (seen.metadata = "filter" /\ seen.raisedAt # "metadata"
            /\ "user_workspace" \in seen.keep.skipped) =>
          Range(seen.keep.file_ids) = StrColumnOf(dst.user_workspace, "object_id")

\* the tag with a leading "team_" removed
StripTeamPrefix(t) ==
    IF Len(t) >= 5 /\ SubSeq(t, 1, 5) = <<"t", "e", "a", "m", "_">>
    THEN SubSeq(t, 6, Len(t)) ELSE t

\* the directory/team mode of the tag predicate, as the specification words it
TeamModeMatch(name, tagset) ==
    \E t \in tagset : name \in {t, Replace(t, "_", "-"), StripTeamPrefix(t)}

\* C6: whenever the Directory Filter runs, a source directory under /teams is among
\* the kept directories if and only if its third path piece is a requested tag, a
\* tag with "_" replaced by "-", or a tag with the prefix team_ removed.
C6_TeamDirectoryMode ==
    seen.metadata = "filter" =>
        \A i \in DOMAIN src.user_dirs.rows :
            LET p == Split(src.user_dirs.rows[i].path, "/") IN
            (Len(p) > 2 /\ p[2] = W_teams) =>
                ((src.user_dirs.rows[i].path \in Range(seen.keep.copied_dirs))
                    <=> TeamModeMatch(p[3], tags))

\* C7: with one expected input absent from an existing source tree (and tags that
\* each hold a "_"), no stage raises: the run ends by returning 0.
C7_MissingInputRecoverable ==
    (src \in MissingInput /\ ~TagsShortRaises(tags)) => outcome # "raised"

\* C8: no source job is written twice to the destination jobs.log.
C8_JobWrittenOnce ==
    (seen.jobs = "filter" /\ seen.wrote_jobs) =>
        \A i, j \in DOMAIN dst.jobs.rows :
            dst.jobs.rows[i].job_id = dst.jobs.rows[j].job_id => i = j

\* C9: run against an empty destination artifacts directory, the Artifact Filter
\* copies the subdirectory d of the source artifacts/Users exactly when d is in
\* users_kept, whether or not the source artifacts/teams exists.
C9_UserArtifacts ==
    (runs = 1 /\ seen.artifacts # "none" /\ seen.raisedAt = "none"
        /\ src.artifacts.Users.exists) =>
        dst.artifacts.Users = src.artifacts.Users.dirs \cap users_to_keep

\* C10: the Cluster and Job filters treat a record lacking custom_tags, z_team,
\* existing_cluster_id or new_cluster as not matching and complete, also when no
\* record of the file carries the field.
C10_MissingFieldNoError ==
    /\ (seen.clusters = "filter" /\ src.acl_clusters.exists) =>
          /\ seen.raisedAt # "clusters"
          /\ \A i \in DOMAIN src.clusters.rows :
                ~ClusterMatches(src.clusters.rows[i], tags) =>
                    src.clusters.rows[i] \notin Range(dst.clusters.rows)
    /\ (seen.jobs = "filter" /\ src.acl_jobs.exists) => seen.raisedAt # "jobs"
====
